---- MODULE Spec2Model ----
(***************************************************************************)
(* QueryBot front end: the App component (query / upload handlers) and the *)
(* AnswerDisplay component (result rendering, chart axes, text summary,    *)
(* "Take Action" webhook dispatch and the e-mail bundle built after it).   *)
(*                                                                         *)
(* Two specifications share the variables below.                           *)
(*   Spec        the event-driven behaviour of App + AnswerDisplay: user   *)
(*               events and the settling of fetch promises interleave.     *)
(*   SpecEngine  getChartKeys() and generateTextSummary() applied to a     *)
(*               bounded family of result sets drawn by InitEngine.        *)
(*   SpecCsv     downloadCSV() applied to a bounded family of result sets  *)
(*               drawn by InitCsv.                                         *)
(*   SpecAnomaly generateMockEmailData() applied to a bounded family of    *)
(*               result sets drawn by InitAnomaly.                         *)
(***************************************************************************)
EXTENDS Integers, Sequences, FiniteSets, TLC

VARIABLES
    \* ---- App (useState hooks) ----
    isLoading,          \* a query request is being awaited
    result,             \* QueryResult | null
    isFileUploaded,     \* last finished upload succeeded
    uploadStatus,       \* status line shown in the sidebar
    \* ---- App (promises in flight) ----
    queriesInFlight,    \* the questions whose processQuery() is awaited,
                        \* in the order they were submitted
    uploadsInFlight,    \* number of uploadFile() promises not yet settled
    \* ---- AnswerDisplay (useState hooks) ----
    isSummaryExpanded,
    isActionProcessing,
    actionCompleted,
    emailData,          \* EmailData | null
    showEmailDetails,
    \* ---- AnswerDisplay (promises in flight) ----
    dispatches,         \* handleTakeAction() calls awaiting Promise.all
    \* ---- the browser ----
    savedFile,          \* Null, or the file the last download saved
    \* ---- history (not program state; read only by the properties) ----
    dispatchGen,        \* number of handleTakeAction() calls so far
    lastDone,           \* Null, or the record of the dispatch that finished last
    \* ---- SpecEngine outputs ----
    chartKeys,          \* Null, or the value getChartKeys() returned
    textSummary,        \* Null, or the value generateTextSummary() returned
    \* ---- SpecAnomaly output ----
    mockEmailData,      \* Null, or what generateMockEmailData() computed
    \* ---- AnswerDisplay (chart request hooks and timers) ----
    chartRequest,       \* the text of the chart request input
    showChart,          \* Null, "pie", "bar" or "line"
    chartProcessing,
    chartTimers,        \* the chart types of the setTimeout callbacks not
                        \* yet run, in the order they were set
    \* ---- App and Sidebar (access-key variant) ----
    isSidebarOpen,
    isAuthenticated,
    accessKey,          \* the text of the access key input
    error               \* the message under the access key form, or ""

vars == <<isLoading, result, isFileUploaded, uploadStatus, queriesInFlight,
          uploadsInFlight, isSummaryExpanded, isActionProcessing,
          actionCompleted, emailData, showEmailDetails, dispatches, savedFile,
          dispatchGen, lastDone, chartKeys, textSummary, mockEmailData,
          chartRequest, showChart, chartProcessing, chartTimers,
          isSidebarOpen, isAuthenticated, accessKey, error>>

appVars     == <<isLoading, result, isFileUploaded, uploadStatus,
                 queriesInFlight, uploadsInFlight>>
displayVars == <<isSummaryExpanded, isActionProcessing, actionCompleted,
                 emailData, showEmailDetails, dispatches, savedFile>>
historyVars == <<dispatchGen, lastDone>>
engineVars  == <<chartKeys, textSummary, mockEmailData>>
chartVars   == <<chartRequest, showChart, chartProcessing, chartTimers>>
sidebarVars == <<isSidebarOpen, isAuthenticated, accessKey, error>>

-----------------------------------------------------------------------------
(* Bounds of the model.                                                    *)

\* handleTakeAction() calls in one behaviour
MaxDispatches == 2
\* uploadFile() promises awaited at the same time
MaxUploadsInFlight == 1
\* processQuery() promises awaited at the same time
MaxQueriesInFlight == 2
\* rows of a result set drawn by InitEngine or InitCsv
MaxRows == 2
\* characters of a string cell drawn by InitCsv
MaxCellLen == 1
\* setTimeout callbacks of handleChartRequest() not yet run
MaxChartTimers == 2
\* largest count in a metric column of a row drawn by InitAnomaly
MaxMetric == 4

-----------------------------------------------------------------------------
(* JavaScript values.  Every value is a record tagged with its type, so    *)
(* that values of different types can be compared.  A string is given as   *)
(* a word (Str: a text without comma, double quote or line break, kept     *)
(* whole) or by its characters (Text: a sequence whose elements are the    *)
(* characters , " and line break, or words).                               *)

Undefined == [t |-> "undefined"]
Null      == [t |-> "null"]
NaN       == [t |-> "number", nan |-> TRUE]
Num(n)    == [t |-> "number", n |-> n]
Str(s)    == [t |-> "string", s |-> s]
Text(cs)  == [t |-> "string", chars |-> cs]
Bool(b)   == [t |-> "boolean", b |-> b]

\* typeof v
TypeOf(v) == IF v = Null THEN "object" ELSE v.t

\* the characters of a string
Chars(v) ==
    IF "chars" \in DOMAIN v THEN v.chars
    ELSE IF v.s = "" THEN <<>> ELSE <<v.s>>

\* ToBoolean(v): what `v || w`, `v && w`, `!v` and `if (v)` test
Truthy(v) ==
    CASE v.t = "undefined" -> FALSE
      [] v.t = "null"      -> FALSE
      [] v.t = "boolean"   -> v.b
      [] v.t = "string"    -> Chars(v) # <<>>
      [] v.t = "number"    -> v # NaN /\ v.n # 0
      [] OTHER             -> TRUE

\* v || w
OrElse(v, w) == IF Truthy(v) THEN v ELSE w

\* row[col] on a JSON object: an absent key reads as undefined
Get(row, col) == IF col \in DOMAIN row THEN row[col] ELSE Undefined

\* arr[i] on an array of strings (0-based): out of range reads as undefined
At(arr, i) == IF i + 1 \in 1..Len(arr) THEN Str(arr[i + 1]) ELSE Undefined

\* The strings of the model are decimal numerals of one digit, or contain
\* no digit at all: this is the numeral table for the former.
DigitValue ==
    [s \in {"0", "1", "2", "3", "4", "5", "6", "7", "8", "9"} |->
        CASE s = "0" -> 0 [] s = "1" -> 1 [] s = "2" -> 2 [] s = "3" -> 3
          [] s = "4" -> 4 [] s = "5" -> 5 [] s = "6" -> 6 [] s = "7" -> 7
          [] s = "8" -> 8 [] s = "9" -> 9]

\* parseInt(v): ToString(v), then the leading integer, NaN when there is none.
\* The numbers of the model are integers, which ToString prints in full.
ParseInt(v) ==
    CASE v.t = "number" -> v
      [] v.t = "string" -> IF v.s \in DOMAIN DigitValue
                             THEN Num(DigitValue[v.s]) ELSE NaN
      [] OTHER          -> NaN

\* ToNumber(v): what Math.min / Math.max apply to each argument
ToNumber(v) ==
    CASE v.t = "number"    -> v
      [] v.t = "null"      -> Num(0)
      [] v.t = "boolean"   -> IF v.b THEN Num(1) ELSE Num(0)
      [] v.t = "string"    -> IF v.s = "" THEN Num(0)
                              ELSE IF v.s \in DOMAIN DigitValue
                                     THEN Num(DigitValue[v.s]) ELSE NaN
      [] OTHER             -> NaN

\* a > k for a number a that may be NaN (every comparison with NaN is false)
Greater(a, k) == a # NaN /\ a.n > k

\* the smaller / larger of two numbers, NaN when either is NaN
Min2(a, b) == IF a = NaN \/ b = NaN THEN NaN ELSE IF a.n <= b.n THEN a ELSE b
Max2(a, b) == IF a = NaN \/ b = NaN THEN NaN ELSE IF a.n >= b.n THEN a ELSE b

\* Math.min(...xs) and Math.max(...xs) for a non-empty array xs
RECURSIVE MathMin(_)
MathMin(xs) ==
    IF Len(xs) = 1 THEN ToNumber(xs[1])
    ELSE Min2(ToNumber(xs[1]), MathMin(Tail(xs)))

RECURSIVE MathMax(_)
MathMax(xs) ==
    IF Len(xs) = 1 THEN ToNumber(xs[1])
    ELSE Max2(ToNumber(xs[1]), MathMax(Tail(xs)))

\* arr.filter(test)
Filter(arr, test(_)) == SelectSeq(arr, test)

\* arr.map(f)
Map(arr, f(_)) == [i \in 1..Len(arr) |-> f(arr[i])]

JoinElement_ToString(v) ==
    CASE v.t = "string"    -> Chars(v)
      [] v.t = "number"    -> IF v = NaN THEN <<"NaN">> ELSE <<ToString(v.n)>>
      [] v.t = "boolean"   -> IF v.b THEN <<"true">> ELSE <<"false">>
      [] v.t = "null"      -> <<"null">>
      [] OTHER             -> <<"undefined">>

\* the characters arr.join() adds for the element v: those of ToString(v),
\* none for undefined and null
JoinElement(v) ==
    CASE v.t = "string"    -> Chars(v)
      [] v.t = "number"    -> IF v = NaN THEN <<"NaN">> ELSE <<ToString(v.n)>>
      [] v.t = "boolean"   -> IF v.b THEN <<"true">> ELSE <<"false">>
      [] OTHER             -> <<>>

\* arr.join(sep), as the characters of the string it returns
RECURSIVE Join(_, _)
Join(arr, sep) ==
    IF Len(arr) = 0 THEN <<>>
    ELSE IF Len(arr) = 1 THEN JoinElement(arr[1])
    ELSE JoinElement(arr[1]) \o <<sep>> \o Join(Tail(arr), sep)

\* str.includes(ch) for a character ch
Includes(str, ch) == \E i \in 1..Len(Chars(str)) : Chars(str)[i] = ch

\* str.replace(/"/g, '""'), on the characters of str
RECURSIVE ReplaceQuotes(_)
ReplaceQuotes(cs) ==
    IF Len(cs) = 0 THEN <<>>
    ELSE (IF Head(cs) = "\"" THEN <<"\"", "\"">> ELSE <<Head(cs)>>)
         \o ReplaceQuotes(Tail(cs))

-----------------------------------------------------------------------------
(* AnswerDisplay: the CSV text downloadCSV() builds.                       *)

csvField_CommaOnly(row, col) ==
    LET value == Get(row, col)
    IN  IF TypeOf(value) = "string" /\ Includes(value, ",")
          THEN Text(<<"\"">> \o ReplaceQuotes(Chars(value)) \o <<"\"">>)
          ELSE value

\* what the inner map() callback returns for the cell of row in column col
csvField(row, col) ==
    LET value == Get(row, col)
    IN  IF TypeOf(value) = "string"
           /\ (Includes(value, ",") \/ Includes(value, "\""))
          THEN Text(<<"\"">> \o ReplaceQuotes(Chars(value)) \o <<"\"">>)
          ELSE value

\* headers
csvHeaders(res) == Join(Map(res.columns, Str), ",")

\* one element of the outer map(): the fields of a row joined by comma
csvLine(res, row) ==
    Join(Map(res.columns, LAMBDA col : csvField(row, col)), ",")

\* csvContent
csvContent(res) ==
    Join(Map(res.data, LAMBDA row : Text(csvLine(res, row))), "\n")

\* csv: `${headers}\n${csvContent}`
csvOf(res) == csvHeaders(res) \o <<"\n">> \o csvContent(res)

-----------------------------------------------------------------------------
(* AnswerDisplay: chart axes and text summary (pure functions of result).  *)

numericColumns_LastRow(res) ==
    Filter(res.columns,
           LAMBDA col : TypeOf(Get(res.data[Len(res.data)], col)) = "number")

\* the two column lists getChartKeys() builds from the first row
numericColumns(res) ==
    Filter(res.columns, LAMBDA col : TypeOf(Get(res.data[1], col)) = "number")
textColumns(res) ==
    Filter(res.columns, LAMBDA col : TypeOf(Get(res.data[1], col)) = "string")

\* getChartKeys(): { x, y }
getChartKeys(res) ==
    IF Len(res.data) = 0 THEN [x |-> Str(""), y |-> Str("")]
    ELSE [x |-> OrElse(At(textColumns(res), 0), At(res.columns, 0)),
          y |-> OrElse(At(numericColumns(res), 0), At(res.columns, 1))]

NoDataMessage == "No data found for this query."

\* The text generateTextSummary() returns: a literal, or the template
\* `Found ${rowCount} record(s) with ${colCount} column(s). ${range}` kept as
\* its holes (range is Null when the trailing sentence is the empty string).
Literal(s) == [kind |-> "literal", text |-> s]
Synthesized(rowCount, colCount, range) ==
    [kind     |-> "template",
     rowCount |-> rowCount, rowPlural |-> rowCount # 1,
     colCount |-> colCount, colPlural |-> colCount # 1,
     range    |-> range]

generateTextSummary_SummaryFirst(res) ==
    IF Truthy(res.ai_summary) THEN Literal(res.ai_summary.s)
    ELSE IF Len(res.data) = 0 THEN Literal(NoDataMessage)
    ELSE Synthesized(Len(res.data), Len(res.columns), Null)

generateTextSummary_NeverVerbatim(res) ==
    IF Len(res.data) = 0 THEN Literal(NoDataMessage)
    ELSE Synthesized(Len(res.data), Len(res.columns), Null)

\* generateTextSummary()
generateTextSummary(res) ==
    IF Len(res.data) = 0 THEN Literal(NoDataMessage)
    ELSE IF Truthy(res.ai_summary) THEN Literal(res.ai_summary.s)
    ELSE LET yKey   == getChartKeys(res).y
             column == Map(res.data, LAMBDA d : Get(d, yKey.s))
         IN  Synthesized(
                 Len(res.data), Len(res.columns),
                 IF Truthy(yKey) /\ TypeOf(Get(res.data[1], yKey.s)) = "number"
                   THEN [key |-> yKey.s,
                         min |-> MathMin(column), max |-> MathMax(column)]
                   ELSE Null)

-----------------------------------------------------------------------------
(* AnswerDisplay: the e-mail bundle built after a successful dispatch.     *)

\* parseInt(row[snake] || row[pascal] || '0')
Metric(row, snake, pascal) ==
    ParseInt(OrElse(Get(row, snake), OrElse(Get(row, pascal), Str("0"))))

cancelledOf(row) == Metric(row, "cancelled_orders", "Cancelled_Orders")
pendingOf(row)   == Metric(row, "pending_orders", "Pending_Orders")
lateOf(row)      == Metric(row, "late_deliveries", "Late_Deliveries")
qualityOf(row)   == Metric(row, "quality_issues", "Quality_Issues")

IsProblematic_AtThreshold(row) ==
    \/ cancelledOf(row) # NaN /\ cancelledOf(row).n >= 2
    \/ pendingOf(row) # NaN /\ pendingOf(row).n >= 0
    \/ lateOf(row) # NaN /\ lateOf(row).n >= 3
    \/ qualityOf(row) # NaN /\ qualityOf(row).n >= 1

\* the filter predicate of problematicSuppliers
IsProblematic(row) ==
    \/ Greater(cancelledOf(row), 2)
    \/ Greater(pendingOf(row), 0)
    \/ Greater(lateOf(row), 3)
    \/ Greater(qualityOf(row), 1)

problematicSuppliers(res) == Filter(res.data, IsProblematic)

\* supplier.Supplier || supplier.supplier || 'Unknown Supplier'
supplierName(row) ==
    OrElse(Get(row, "Supplier"),
           OrElse(Get(row, "supplier"), Str("Unknown Supplier")))

\* issues: one entry per exceeded threshold, in the order of the four ifs;
\* each entry keeps the hole of its template string (the observed value)
issuesOf(row) ==
    (IF Greater(cancelledOf(row), 2)
       THEN <<[signal |-> "cancelled orders", value |-> cancelledOf(row)]>>
       ELSE <<>>)
    \o (IF Greater(pendingOf(row), 0)
          THEN <<[signal |-> "orders pending", value |-> pendingOf(row)]>>
          ELSE <<>>)
    \o (IF Greater(lateOf(row), 3)
          THEN <<[signal |-> "late deliveries", value |-> lateOf(row)]>>
          ELSE <<>>)
    \o (IF Greater(qualityOf(row), 1)
          THEN <<[signal |-> "quality issues", value |-> qualityOf(row)]>>
          ELSE <<>>)

requiredActionsOf_Every(row) == <<1, 2, 3, 4>>

\* the numbered "Required Actions" lines of the body, by their numbers
requiredActionsOf(row) ==
    (IF Greater(cancelledOf(row), 2) THEN <<1>> ELSE <<>>)
    \o (IF Greater(pendingOf(row), 0) THEN <<2>> ELSE <<>>)
    \o (IF Greater(lateOf(row), 3) THEN <<3>> ELSE <<>>)
    \o (IF Greater(qualityOf(row), 1) THEN <<4>> ELSE <<>>)

\* One element of supplierEmails.  The address, the subject and the fixed
\* paragraphs of the body are texts derived from `supplier` alone; they are
\* kept as the name they are derived from.
supplierEmail(row) ==
    [supplier        |-> supplierName(row),
     issues          |-> issuesOf(row),
     requiredActions |-> requiredActionsOf(row),
     priority        |-> "high"]

\* name.toLowerCase() is a TypeError unless name is a string
supplierEmailThrows(row) == TypeOf(supplierName(row)) # "string"

\* generateMockEmailData() throws (while mapping problematicSuppliers)
generateMockEmailDataThrows(res) ==
    \E i \in 1..Len(problematicSuppliers(res)) :
        supplierEmailThrows(problematicSuppliers(res)[i])

\* generateMockEmailData(): EmailData (the timestamps, which only label the
\* bundle with the wall-clock time of its construction, are left out)
generateMockEmailData(res) ==
    LET supplierEmails == Map(problematicSuppliers(res), supplierEmail)
    IN  [supplierEmails   |-> supplierEmails,
         executiveEmail   |->
             [recipient  |-> "management@yourcompany.com",
              actions    |-> Len(supplierEmails),
              highRisk   |-> Len(Filter(supplierEmails,
                                 LAMBDA e : Len(e.issues) > 2)),
              mediumRisk |-> Len(Filter(supplierEmails,
                                 LAMBDA e : Len(e.issues) <= 2)),
              monitored  |-> Len(res.data)],
         totalIssuesFound |-> Len(supplierEmails)]

-----------------------------------------------------------------------------
(* The environment of Spec: what the user types and what the servers send. *)

\* the trimmed, non-empty texts a user submits
Questions == {"q1"}

\* rows of the result sets the query backend returns
AcmeRow    == [Supplier |-> Str("Acme"), pending_orders |-> Num(1)]
NumberedRow == [Supplier |-> Num(7), pending_orders |-> Num(1)]

\* bodies of a 2xx reply of POST /query (question is filled in by the caller)
QueryReplies(q) ==
    {[success |-> TRUE, data |-> <<AcmeRow>>,
      columns |-> <<"Supplier", "pending_orders">>, question |-> q,
      message |-> Undefined, ai_summary |-> Undefined],
     [success |-> TRUE, data |-> <<NumberedRow>>,
      columns |-> <<"Supplier", "pending_orders">>, question |-> q,
      message |-> Undefined, ai_summary |-> Undefined],
     [success |-> FALSE, data |-> <<>>,
      columns |-> <<>>, question |-> q,
      message |-> Str("no such column"), ai_summary |-> Undefined],
     [success |-> FALSE, data |-> <<>>,
      columns |-> <<>>, question |-> q,
      message |-> Undefined, ai_summary |-> Undefined]}

\* messages of the Errors processQuery() throws (a non-2xx reply that
\* carries no detail)
QueryErrors == {"Query failed"}

\* how one fetch() of a webhook settles: a response, or a rejection
FetchResults ==
    {[kind |-> "response", status |-> 200, statusText |-> "OK"],
     [kind |-> "response", status |-> 500,
      statusText |-> "Internal Server Error"],
     [kind |-> "reject", message |-> "Failed to fetch"]}

-----------------------------------------------------------------------------
(* App.                                                                    *)

UploadFirstMessage == "Please upload a CSV file first before querying."

\* the failure result handleQuery() builds itself
FailureResult(query, message) ==
    [success |-> FALSE, data |-> <<>>, columns |-> <<>>, question |-> query,
     message |-> Str(message), ai_summary |-> Undefined]

\* the calls of handleQuery() still awaited, without the i-th
RemoveAt(queries, i) ==
    SubSeq(queries, 1, i - 1) \o SubSeq(queries, i + 1, Len(queries))

\* History only: the dispatches still awaited when the user starts a new
\* query or a new upload are marked as superseded.
Supersede == {[d EXCEPT !.superseded = TRUE] : d \in dispatches}

handleQuery_NoUploadCheck(query) ==
    /\ Len(queriesInFlight) < MaxQueriesInFlight
    /\ isLoading' = TRUE
    /\ queriesInFlight' = Append(queriesInFlight, Str(query))
    /\ dispatches' = Supersede
    /\ UNCHANGED <<result, isFileUploaded, uploadStatus, uploadsInFlight>>
    /\ UNCHANGED <<isSummaryExpanded, isActionProcessing, actionCompleted,
                   emailData, showEmailDetails, savedFile>>
    /\ UNCHANGED <<historyVars, engineVars, chartVars, sidebarVars>>

handleQuery_ResetsAction(query) ==
    /\ IF ~isFileUploaded
         THEN /\ result' = FailureResult(query, UploadFirstMessage)
              /\ UNCHANGED <<isLoading, queriesInFlight>>
         ELSE /\ Len(queriesInFlight) < MaxQueriesInFlight
              /\ isLoading' = TRUE
              /\ queriesInFlight' = Append(queriesInFlight, Str(query))
              /\ UNCHANGED result
    /\ dispatches' = Supersede
    /\ actionCompleted' = FALSE
    /\ emailData' = Null
    /\ UNCHANGED <<isFileUploaded, uploadStatus, uploadsInFlight>>
    /\ UNCHANGED <<isSummaryExpanded, isActionProcessing, showEmailDetails,
                   savedFile>>
    /\ UNCHANGED <<historyVars, engineVars, chartVars, sidebarVars>>

\* handleQuery(query), up to its await
handleQuery(query) ==
    /\ IF ~isFileUploaded
         THEN /\ result' = FailureResult(query, UploadFirstMessage)
              /\ UNCHANGED <<isLoading, queriesInFlight>>
         ELSE /\ Len(queriesInFlight) < MaxQueriesInFlight
              /\ isLoading' = TRUE
              /\ queriesInFlight' = Append(queriesInFlight, Str(query))
              /\ UNCHANGED result
    /\ dispatches' = Supersede
    /\ UNCHANGED <<isFileUploaded, uploadStatus, uploadsInFlight>>
    /\ UNCHANGED <<isSummaryExpanded, isActionProcessing, actionCompleted,
                   emailData, showEmailDetails, savedFile>>
    /\ UNCHANGED <<historyVars, engineVars, chartVars, sidebarVars>>

HandleSubmit_WhileLoading == \E query \in Questions : handleQuery(query)

\* QueryBox.handleSubmit: the form's submit handler
HandleSubmit ==
    \E query \in Questions :
        /\ ~isLoading
        /\ handleQuery(query)

\* the textarea's onKeyDown for Enter without Shift: calls handleSubmit
HandleKeyDown ==
    /\ isFileUploaded /\ ~isLoading
    /\ HandleSubmit

\* QueryBox.handleQuickQuestion: a sample question is clicked
HandleQuickQuestion ==
    \E question \in Questions :
        /\ isFileUploaded /\ ~isLoading
        /\ handleQuery(question)

\* handleQuery() after its await: processQuery() returned queryResult
QueryResolves ==
    /\ \E i \in 1..Len(queriesInFlight) :
           /\ \E queryResult \in QueryReplies(queriesInFlight[i].s) :
                  result' = queryResult
           /\ queriesInFlight' = RemoveAt(queriesInFlight, i)
    /\ isLoading' = FALSE
    /\ UNCHANGED <<isFileUploaded, uploadStatus, uploadsInFlight>>
    /\ UNCHANGED <<displayVars, historyVars, engineVars, chartVars, sidebarVars>>

\* handleQuery() after its await: processQuery() threw
QueryRejects ==
    /\ \E i \in 1..Len(queriesInFlight) :
           /\ \E message \in QueryErrors :
                  result' = FailureResult(queriesInFlight[i].s, message)
           /\ queriesInFlight' = RemoveAt(queriesInFlight, i)
    /\ isLoading' = FALSE
    /\ UNCHANGED <<isFileUploaded, uploadStatus, uploadsInFlight>>
    /\ UNCHANGED <<displayVars, historyVars, engineVars, chartVars, sidebarVars>>

\* handleFileUpload(file), up to its await
HandleFileUpload ==
    /\ uploadsInFlight < MaxUploadsInFlight
    /\ uploadStatus' = "Uploading file..."
    /\ uploadsInFlight' = uploadsInFlight + 1
    /\ dispatches' = Supersede
    /\ UNCHANGED <<isLoading, result, isFileUploaded, queriesInFlight>>
    /\ UNCHANGED <<isSummaryExpanded, isActionProcessing, actionCompleted,
                   emailData, showEmailDetails, savedFile>>
    /\ UNCHANGED <<historyVars, engineVars, chartVars, sidebarVars>>

\* handleFileUpload() after its await: uploadFile() returned (the data
\* overview fetched next only fills the sidebar's overview panel)
UploadResolves ==
    /\ uploadsInFlight > 0
    /\ uploadsInFlight' = uploadsInFlight - 1
    /\ isFileUploaded' = TRUE
    /\ uploadStatus' = "uploaded"
    /\ UNCHANGED <<isLoading, result, queriesInFlight>>
    /\ UNCHANGED <<displayVars, historyVars, engineVars, chartVars, sidebarVars>>

\* handleFileUpload() after its await: uploadFile() threw
UploadRejects ==
    /\ uploadsInFlight > 0
    /\ uploadsInFlight' = uploadsInFlight - 1
    /\ isFileUploaded' = FALSE
    /\ uploadStatus' = "Upload failed"
    /\ UNCHANGED <<isLoading, result, queriesInFlight>>
    /\ UNCHANGED <<displayVars, historyVars, engineVars, chartVars, sidebarVars>>

-----------------------------------------------------------------------------
(* AnswerDisplay: what it renders.  App renders <AnswerDisplay> always, so *)
(* its hooks keep their state while result changes.                        *)

DefaultErrorMessage == "An error occurred while processing your query."

Render_NoShortCircuit ==
    IF result = Null THEN [kind |-> "nothing"]
    ELSE [kind |-> "answer"]

\* Which of its three returns the component takes: nothing, the red message
\* box alone, or the full answer (table, buttons, summary, chart, e-mails).
Render ==
    IF result = Null THEN [kind |-> "nothing"]
    ELSE IF ~result.success
      THEN [kind    |-> "error",
            message |-> OrElse(result.message, Str(DefaultErrorMessage))]
    ELSE [kind |-> "answer"]

\* the Take Action button's `disabled`
TakeActionDisabled_Never == FALSE
TakeActionDisabled == isActionProcessing

\* the Take Action button's caption
TakeActionLabel ==
    IF isActionProcessing THEN "Processing..."
    ELSE IF actionCompleted THEN "Action Complete"
    ELSE "Take Action"

\* the "Email Communication Results" section: rendered iff emailData is set
EmailSectionShown == Render.kind = "answer" /\ emailData # Null

-----------------------------------------------------------------------------
(* AnswerDisplay: handleTakeAction.                                        *)

webhookUrls ==
    <<"https://7215b9f1f74c.ngrok-free.app/webhook/f4f1181c-ce65-449c-90bc-33cfb8b3d9eb",
      "http://localhost:5678/webhook/f4f1181c-ce65-449c-90bc-33cfb8b3d9eb">>

Endpoints == {webhookUrls[i] : i \in 1..Len(webhookUrls)}

\* a promise of webhookPromises that has not settled
Pending == [t |-> "pending"]

\* response.ok
ResponseOk(response) == response.status \in 200..299

\* what one element of webhookPromises resolves to (it never rejects)
Outcome(url, fetched) ==
    IF fetched.kind = "response"
      THEN IF ResponseOk(fetched)
             THEN [url |-> url, success |-> TRUE,
                   status |-> Num(fetched.status), error |-> Undefined]
             ELSE [url |-> url, success |-> FALSE,
                   status |-> Num(fetched.status),
                   error |-> Str(fetched.statusText)]
      ELSE [url |-> url, success |-> FALSE,
            status |-> Undefined, error |-> Str(fetched.message)]

\* Promise.all(webhookPromises) resolves once no element is pending
AllSettled(outcomes) == \A url \in Endpoints : outcomes[url] # Pending

\* results.some(result => result.success)
HasSuccess_Every(results) == \A i \in 1..Len(results) : results[i].success
HasSuccess(results) == \E i \in 1..Len(results) : results[i].success

\* handleTakeAction(), up to `await Promise.all`: one fetch per url is
\* started; the handler keeps the result of the render it was created in
HandleTakeAction ==
    /\ Render.kind = "answer"
    /\ ~TakeActionDisabled
    /\ dispatchGen < MaxDispatches
    /\ isActionProcessing' = TRUE
    /\ dispatchGen' = dispatchGen + 1
    /\ dispatches' = dispatches \cup
           {[gen        |-> dispatchGen + 1,
             closure    |-> result,
             requests   |-> webhookUrls,
             outcomes   |-> [url \in Endpoints |-> Pending],
             superseded |-> FALSE]}
    /\ UNCHANGED <<isSummaryExpanded, actionCompleted, emailData,
                   showEmailDetails, savedFile>>
    /\ UNCHANGED <<appVars, lastDone, engineVars, chartVars, sidebarVars>>

Settled_FailureAbortsOthers(d, url, fetched) ==
    IF Outcome(url, fetched).success
      THEN [d EXCEPT !.outcomes[url] = Outcome(url, fetched)]
      ELSE [d EXCEPT !.outcomes =
               [u \in Endpoints |->
                   IF u = url THEN Outcome(url, fetched)
                   ELSE IF d.outcomes[u] = Pending
                     THEN [url |-> u, success |-> FALSE,
                           status |-> Undefined, error |-> Str("aborted")]
                   ELSE d.outcomes[u]]]

\* dispatch d after the fetch of url settled as fetched
Settled(d, url, fetched) ==
    [d EXCEPT !.outcomes[url] = Outcome(url, fetched)]

\* One fetch settles while Promise.all still waits for another.
FetchSettles ==
    \E d \in dispatches, url \in Endpoints, fetched \in FetchResults :
        /\ d.outcomes[url] = Pending
        /\ ~AllSettled(Settled(d, url, fetched).outcomes)
        /\ dispatches' = (dispatches \ {d}) \cup {Settled(d, url, fetched)}
        /\ UNCHANGED <<isSummaryExpanded, isActionProcessing, actionCompleted,
                       emailData, showEmailDetails, savedFile>>
        /\ UNCHANGED <<appVars, historyVars, engineVars, chartVars, sidebarVars>>

PromiseAllResolves_NoFinally ==
    \E d \in dispatches, url \in Endpoints, fetched \in FetchResults :
        LET done       == [d EXCEPT !.outcomes[url] = Outcome(url, fetched)]
            results    == [i \in 1..Len(webhookUrls) |->
                              done.outcomes[webhookUrls[i]]]
            hasSuccess == HasSuccess(results)
            threw      == hasSuccess /\ generateMockEmailDataThrows(d.closure)
            applied    == hasSuccess /\ ~threw
        IN  /\ d.outcomes[url] = Pending
            /\ AllSettled(done.outcomes)
            /\ dispatches' = dispatches \ {d}
            /\ IF applied
                 THEN /\ emailData' = generateMockEmailData(d.closure)
                      /\ actionCompleted' = TRUE
                      /\ showEmailDetails' = TRUE
                 ELSE UNCHANGED <<emailData, actionCompleted,
                                  showEmailDetails>>
            /\ isActionProcessing' = (threw /\ isActionProcessing)
            /\ lastDone' = [gen        |-> d.gen,
                            requests   |-> d.requests,
                            results    |-> results,
                            hasSuccess |-> hasSuccess,
                            threw      |-> threw,
                            applied    |-> applied]
            /\ UNCHANGED <<isSummaryExpanded, savedFile>>
            /\ UNCHANGED <<appVars, dispatchGen, engineVars, chartVars, sidebarVars>>

\* The fetch that lets Promise.all resolve settles: handleTakeAction() runs
\* from its await to its end (try, catch and finally) in the same task.
PromiseAllResolves ==
    \E d \in dispatches, url \in Endpoints, fetched \in FetchResults :
        LET done       == Settled(d, url, fetched)
            results    == [i \in 1..Len(webhookUrls) |->
                              done.outcomes[webhookUrls[i]]]
            hasSuccess == HasSuccess(results)
            threw      == hasSuccess /\ generateMockEmailDataThrows(d.closure)
            applied    == hasSuccess /\ ~threw
        IN  /\ d.outcomes[url] = Pending
            /\ AllSettled(done.outcomes)
            /\ dispatches' = dispatches \ {d}
            /\ IF applied
                 THEN /\ emailData' = generateMockEmailData(d.closure)
                      /\ actionCompleted' = TRUE
                      /\ showEmailDetails' = TRUE
                 ELSE UNCHANGED <<emailData, actionCompleted,
                                  showEmailDetails>>
            /\ isActionProcessing' = FALSE
            /\ lastDone' = [gen        |-> d.gen,
                            requests   |-> d.requests,
                            results    |-> results,
                            hasSuccess |-> hasSuccess,
                            threw      |-> threw,
                            applied    |-> applied]
            /\ UNCHANGED <<isSummaryExpanded, savedFile>>
            /\ UNCHANGED <<appVars, dispatchGen, engineVars, chartVars, sidebarVars>>

-----------------------------------------------------------------------------
(* AnswerDisplay: the other controls of the answer view.                   *)

\* downloadCSV(): saves the CSV text as query_results.csv unless there are
\* no rows
DownloadCSV ==
    /\ Render.kind = "answer"
    /\ savedFile' = IF Len(result.data) = 0 THEN savedFile
                    ELSE [name    |-> "query_results.csv",
                          type    |-> "text/csv;charset=utf-8;",
                          content |-> csvOf(result)]
    /\ UNCHANGED <<isSummaryExpanded, isActionProcessing, actionCompleted,
                   emailData, showEmailDetails, dispatches>>
    /\ UNCHANGED <<appVars, historyVars, engineVars, chartVars, sidebarVars>>

\* the "Data Insights" header: setIsSummaryExpanded(!isSummaryExpanded)
ToggleSummary ==
    /\ Render.kind = "answer"
    /\ isSummaryExpanded' = ~isSummaryExpanded
    /\ UNCHANGED <<isActionProcessing, actionCompleted, emailData,
                   showEmailDetails, dispatches, savedFile>>
    /\ UNCHANGED <<appVars, historyVars, engineVars, chartVars, sidebarVars>>

\* "Show Details" / "Hide Details": setShowEmailDetails(!showEmailDetails)
ToggleEmailDetails ==
    /\ EmailSectionShown
    /\ showEmailDetails' = ~showEmailDetails
    /\ UNCHANGED <<isSummaryExpanded, isActionProcessing, actionCompleted,
                   emailData, dispatches, savedFile>>
    /\ UNCHANGED <<appVars, historyVars, engineVars, chartVars, sidebarVars>>

\* the text shown under "Data Insights" (Null while it is collapsed or the
\* answer view is not rendered)
SummaryShown ==
    IF Render.kind = "answer" /\ isSummaryExpanded
      THEN generateTextSummary(result) ELSE Null

\* xKey, yKey: computed on every render of the answer view
AxesComputed ==
    IF Render.kind = "answer" THEN getChartKeys(result) ELSE Null

-----------------------------------------------------------------------------
(* Spec: App and AnswerDisplay under user events and settling promises.    *)

\* useState initial values of the chart request hooks; no timer is set
ChartInit ==
    /\ chartRequest = ""
    /\ showChart = Null
    /\ chartProcessing = FALSE
    /\ chartTimers = <<>>

\* useState initial values of App.isSidebarOpen and of the Sidebar's hooks
SidebarInit ==
    /\ isSidebarOpen = FALSE
    /\ isAuthenticated = FALSE
    /\ accessKey = ""
    /\ error = ""

Init ==
    /\ isLoading = FALSE
    /\ result = Null
    /\ isFileUploaded = FALSE
    /\ uploadStatus = ""
    /\ queriesInFlight = <<>>
    /\ uploadsInFlight = 0
    /\ isSummaryExpanded = FALSE
    /\ isActionProcessing = FALSE
    /\ actionCompleted = FALSE
    /\ emailData = Null
    /\ showEmailDetails = FALSE
    /\ dispatches = {}
    /\ savedFile = Null
    /\ dispatchGen = 0
    /\ lastDone = Null
    /\ chartKeys = Null
    /\ textSummary = Null
    /\ mockEmailData = Null
    /\ ChartInit
    /\ SidebarInit

Next ==
    \/ HandleSubmit
    \/ HandleKeyDown
    \/ HandleQuickQuestion
    \/ QueryResolves
    \/ QueryRejects
    \/ HandleFileUpload
    \/ UploadResolves
    \/ UploadRejects
    \/ HandleTakeAction
    \/ FetchSettles
    \/ PromiseAllResolves
    \/ DownloadCSV
    \/ ToggleSummary
    \/ ToggleEmailDetails

Spec == Init /\ [][Next]_vars

-----------------------------------------------------------------------------
(* SpecLive: a file is uploaded and an answer is shown; the user asks and  *)
(* dispatches; every fetch() of a webhook that was started settles, and    *)
(* the continuation of handleTakeAction() runs once Promise.all resolved.  *)

InitLive ==
    /\ result \in {reply \in QueryReplies("q1") : reply.success}
    /\ isLoading = FALSE
    /\ isFileUploaded = TRUE
    /\ uploadStatus = "uploaded"
    /\ queriesInFlight = <<>>
    /\ uploadsInFlight = 0
    /\ isSummaryExpanded = FALSE
    /\ isActionProcessing = FALSE
    /\ actionCompleted = FALSE
    /\ emailData = Null
    /\ showEmailDetails = FALSE
    /\ dispatches = {}
    /\ savedFile = Null
    /\ dispatchGen = 0
    /\ lastDone = Null
    /\ chartKeys = Null
    /\ textSummary = Null
    /\ mockEmailData = Null
    /\ ChartInit
    /\ SidebarInit

NextLive ==
    \/ HandleSubmit
    \/ QueryResolves
    \/ HandleTakeAction
    \/ FetchSettles
    \/ PromiseAllResolves

SpecLive ==
    /\ InitLive
    /\ [][NextLive]_vars
    /\ WF_vars(FetchSettles)
    /\ WF_vars(PromiseAllResolves)

-----------------------------------------------------------------------------
(* SpecEngine: getChartKeys() and generateTextSummary() applied to every   *)
(* result set of a bounded family.                                         *)

EngineColumnNames == {"name", "qty"}

\* result.columns: the orderings of every subset of the column names
EngineColumnLists ==
    {<<>>, <<"name">>, <<"qty">>, <<"name", "qty">>, <<"qty", "name">>}

\* the values of a cell of a JSON row
EngineCells == {Num(1), Str("x"), Bool(TRUE), Null}

\* a row holds a cell for some of the column names (an absent key is a
\* missing value)
EngineRows == UNION {[keys -> EngineCells] : keys \in SUBSET EngineColumnNames}

\* result.data with n rows
EngineData(n) == [1..n -> EngineRows]

EngineSummaries == {Undefined, Str(""), Str("Sales rose in May.")}

\* the result sets with n rows
EngineResults(n) ==
    {[success |-> TRUE, data |-> data, columns |-> columns,
      question |-> "q1", message |-> Undefined, ai_summary |-> summary] :
        data \in EngineData(n), columns \in EngineColumnLists,
        summary \in EngineSummaries}

InitEngine ==
    /\ \E n \in 0..MaxRows : result \in EngineResults(n)
    /\ isLoading = FALSE
    /\ isFileUploaded = TRUE
    /\ uploadStatus = "uploaded"
    /\ queriesInFlight = <<>>
    /\ uploadsInFlight = 0
    /\ isSummaryExpanded = FALSE
    /\ isActionProcessing = FALSE
    /\ actionCompleted = FALSE
    /\ emailData = Null
    /\ showEmailDetails = FALSE
    /\ dispatches = {}
    /\ savedFile = Null
    /\ dispatchGen = 0
    /\ lastDone = Null
    /\ chartKeys = Null
    /\ textSummary = Null
    /\ mockEmailData = Null
    /\ ChartInit
    /\ SidebarInit

\* the component renders the answer view: const { x, y } = getChartKeys()
GetChartKeys ==
    /\ chartKeys = Null
    /\ chartKeys' = getChartKeys(result)
    /\ UNCHANGED <<appVars, displayVars, historyVars, textSummary,
                   mockEmailData, chartVars, sidebarVars>>

\* the expanded "Data Insights" panel renders {generateTextSummary()}
GenerateTextSummary ==
    /\ textSummary = Null
    /\ textSummary' = generateTextSummary(result)
    /\ UNCHANGED <<appVars, displayVars, historyVars, chartKeys,
                   mockEmailData, chartVars, sidebarVars>>

NextEngine ==
    \/ GetChartKeys
    \/ GenerateTextSummary

SpecEngine == InitEngine /\ [][NextEngine]_vars

-----------------------------------------------------------------------------
(* SpecCsv: downloadCSV() applied to every result set of a bounded family. *)

\* the characters string cells are made of
CsvChars == {"a", ",", "\"", "\n"}

\* the string Acme, "Inc."
AcmeInc == Text(<<"Acme", ",", " ", "\"", "Inc.", "\"">>)

\* the string cells: every string of up to MaxCellLen characters, and AcmeInc
CsvTexts ==
    {Text(cs) : cs \in UNION {[1..n -> CsvChars] : n \in 0..MaxCellLen}}
        \cup {AcmeInc}

\* the values of a cell of column "a"
CsvCells == CsvTexts \cup {Num(1), Bool(TRUE), Null}

\* a row holds any cell, or none, in column "a" and the word x, or nothing,
\* in column "b"
CsvRows ==
    UNION {{[k \in keys |-> IF k = "a" THEN cell ELSE Str("x")] :
               cell \in CsvCells} : keys \in SUBSET {"a", "b"}}

\* result.data with n rows
CsvData(n) == [1..n -> CsvRows]

CsvColumnLists == {<<"a">>, <<"a", "b">>}

\* the result sets with n rows
CsvResults(n) ==
    {[success |-> TRUE, data |-> data, columns |-> columns,
      question |-> "q1", message |-> Undefined, ai_summary |-> Undefined] :
        data \in CsvData(n), columns \in CsvColumnLists}

InitCsv ==
    /\ \E n \in 0..MaxRows : result \in CsvResults(n)
    /\ isLoading = FALSE
    /\ isFileUploaded = TRUE
    /\ uploadStatus = "uploaded"
    /\ queriesInFlight = <<>>
    /\ uploadsInFlight = 0
    /\ isSummaryExpanded = FALSE
    /\ isActionProcessing = FALSE
    /\ actionCompleted = FALSE
    /\ emailData = Null
    /\ showEmailDetails = FALSE
    /\ dispatches = {}
    /\ savedFile = Null
    /\ dispatchGen = 0
    /\ lastDone = Null
    /\ chartKeys = Null
    /\ textSummary = Null
    /\ mockEmailData = Null
    /\ ChartInit
    /\ SidebarInit

\* the only control used is the "Download CSV" button
NextCsv == DownloadCSV

SpecCsv == InitCsv /\ [][NextCsv]_vars

-----------------------------------------------------------------------------
(* SpecAnomaly: generateMockEmailData() applied to every result set of a   *)
(* bounded family.                                                         *)

\* the values of a metric column: the counts up to MaxMetric, and a numeral
MetricValues == {Num(n) : n \in 0..MaxMetric} \cup {Str("3")}

\* the metric columns of a row: the four snake_case columns, and the
\* Pascal-case alias of the first
MetricColumns ==
    {"cancelled_orders", "Cancelled_Orders", "pending_orders",
     "late_deliveries", "quality_issues"}

\* what a row holds in a metric column: a value, or nothing
MetricCells == MetricValues \cup {Undefined}

\* what a row holds in the Supplier column: a string, a number, or nothing
SupplierCells == {Str("Acme"), Num(7), Undefined}

\* the row that holds the given cells (a column that holds nothing is absent)
AnomalyRow(metrics, name) ==
    LET cells == [k \in MetricColumns \cup {"Supplier"} |->
                     IF k = "Supplier" THEN name ELSE metrics[k]]
    IN  [k \in {c \in DOMAIN cells : cells[c] # Undefined} |-> cells[k]]

\* the row with cancelled_orders=3, pending_orders=0, late_deliveries=1,
\* quality_issues=0
ExampleRow ==
    [cancelled_orders |-> Num(3), pending_orders |-> Num(0),
     late_deliveries |-> Num(1), quality_issues |-> Num(0)]

\* the result set with the given rows
AnomalyResult(data) ==
    [success |-> TRUE, data |-> data,
     columns |-> <<"Supplier", "cancelled_orders", "pending_orders",
                   "late_deliveries", "quality_issues">>,
     question |-> "q1", message |-> Undefined, ai_summary |-> Undefined]

\* result.data is one row, or ExampleRow and one row after it
InitAnomaly ==
    /\ \E metrics \in [MetricColumns -> MetricCells], name \in SupplierCells :
           \/ result = AnomalyResult(<<AnomalyRow(metrics, name)>>)
           \/ result = AnomalyResult(<<ExampleRow, AnomalyRow(metrics, name)>>)
    /\ isLoading = FALSE
    /\ isFileUploaded = TRUE
    /\ uploadStatus = "uploaded"
    /\ queriesInFlight = <<>>
    /\ uploadsInFlight = 0
    /\ isSummaryExpanded = FALSE
    /\ isActionProcessing = FALSE
    /\ actionCompleted = FALSE
    /\ emailData = Null
    /\ showEmailDetails = FALSE
    /\ dispatches = {}
    /\ savedFile = Null
    /\ dispatchGen = 0
    /\ lastDone = Null
    /\ chartKeys = Null
    /\ textSummary = Null
    /\ mockEmailData = Null
    /\ ChartInit
    /\ SidebarInit

\* const mockEmailData = generateMockEmailData(): the rows its filter kept,
\* and the value it returned unless it threw
GenerateMockEmailData ==
    /\ mockEmailData = Null
    /\ mockEmailData' =
           [problematicSuppliers |-> problematicSuppliers(result),
            threw |-> generateMockEmailDataThrows(result),
            value |-> IF generateMockEmailDataThrows(result) THEN Undefined
                      ELSE generateMockEmailData(result)]
    /\ UNCHANGED <<appVars, displayVars, historyVars, chartKeys, textSummary,
                   chartVars, sidebarVars>>

NextAnomaly == GenerateMockEmailData

SpecAnomaly == InitAnomaly /\ [][NextAnomaly]_vars

-----------------------------------------------------------------------------
(* SpecChart: the chart request of an answer that is displayed.            *)

\* what the user types into the chart request input
ChartRequests ==
    {"", "  ", "Pie chart", "columns over time", "trend line", "scatter"}

\* text.trim(), on ChartRequests
Trim(text) == IF text = "  " THEN "" ELSE text

\* text.toLowerCase(), on ChartRequests
ToLowerCase(text) == IF text = "Pie chart" THEN "pie chart" ELSE text

\* text.includes(word), for the lower-case forms of ChartRequests and the
\* words handleChartRequest() looks for
StringIncludes(text, word) ==
    CASE text = "pie chart"         -> word \in {"pie"}
      [] text = "columns over time" -> word \in {"column", "time", "over time"}
      [] text = "trend line"        -> word \in {"trend", "line"}
      [] OTHER                      -> FALSE

\* the chart type handleChartRequest() derives from the lower-case request
chartType(request) ==
    IF StringIncludes(request, "pie") \/ StringIncludes(request, "donut")
           \/ StringIncludes(request, "circle")
      THEN "pie"
    ELSE IF StringIncludes(request, "bar") \/ StringIncludes(request, "column")
           \/ StringIncludes(request, "histogram")
      THEN "bar"
    ELSE IF StringIncludes(request, "line") \/ StringIncludes(request, "trend")
           \/ StringIncludes(request, "time")
           \/ StringIncludes(request, "over time")
      THEN "line"
    ELSE "bar"

\* handleChartRequest(): returns at once on a blank request, else sets
\* chartProcessing and a timer of one second
handleChartRequest ==
    /\ IF Trim(chartRequest) = ""
         THEN UNCHANGED chartVars
         ELSE /\ Len(chartTimers) < MaxChartTimers
              /\ chartProcessing' = TRUE
              /\ chartTimers' =
                     Append(chartTimers, chartType(ToLowerCase(chartRequest)))
              /\ UNCHANGED <<chartRequest, showChart>>
    /\ UNCHANGED <<appVars, displayVars, historyVars, engineVars, sidebarVars>>

\* the input's onChange: setChartRequest(e.target.value)
SetChartRequest ==
    /\ Render.kind = "answer"
    /\ \E text \in ChartRequests \ {chartRequest} : chartRequest' = text
    /\ UNCHANGED <<showChart, chartProcessing, chartTimers>>
    /\ UNCHANGED <<appVars, displayVars, historyVars, engineVars, sidebarVars>>

\* the Create Chart button's `disabled`
CreateChartDisabled == Trim(chartRequest) = "" \/ chartProcessing

\* the Create Chart button is clicked
ClickCreateChart ==
    /\ Render.kind = "answer"
    /\ ~CreateChartDisabled
    /\ handleChartRequest

\* handleKeyPress for Enter without Shift in the chart request input
HandleKeyPress ==
    /\ Render.kind = "answer"
    /\ handleChartRequest

\* the callback of the timer set first runs (equal delays run in the order
\* they were set)
ChartTimerFires ==
    /\ chartTimers # <<>>
    /\ showChart' = Head(chartTimers)
    /\ chartProcessing' = FALSE
    /\ chartTimers' = Tail(chartTimers)
    /\ UNCHANGED chartRequest
    /\ UNCHANGED <<appVars, displayVars, historyVars, engineVars, sidebarVars>>

InitChart == InitLive

NextChart ==
    \/ SetChartRequest
    \/ ClickCreateChart
    \/ HandleKeyPress
    \/ ChartTimerFires

SpecChart == InitChart /\ [][NextChart]_vars

-----------------------------------------------------------------------------
(* SpecSidebar: App with the Sidebar that asks for an access key.          *)

CORRECT_ACCESS_KEY == "pass@123"

InvalidKeyMessage == "Invalid access key. Please try again."

\* what the user types into the access key input
AccessKeys == {"", "pass@123", "pass@12", "Pass@123", "pass@1234"}

\* Navbar's settings button: setIsSidebarOpen(true)
OpenSidebar ==
    /\ ~isSidebarOpen
    /\ isSidebarOpen' = TRUE
    /\ UNCHANGED <<isAuthenticated, accessKey, error>>
    /\ UNCHANGED <<appVars, displayVars, historyVars, engineVars, chartVars>>

\* the access key input's onChange: setAccessKey(e.target.value)
SetAccessKey ==
    /\ isSidebarOpen /\ ~isAuthenticated
    /\ \E key \in AccessKeys \ {accessKey} : accessKey' = key
    /\ UNCHANGED <<isSidebarOpen, isAuthenticated, error>>
    /\ UNCHANGED <<appVars, displayVars, historyVars, engineVars, chartVars>>

\* handleKeySubmit: the access key form is submitted (Unlock is disabled
\* while the input is empty)
HandleKeySubmit ==
    /\ isSidebarOpen /\ ~isAuthenticated
    /\ accessKey # ""
    /\ IF accessKey = CORRECT_ACCESS_KEY
         THEN /\ isAuthenticated' = TRUE
              /\ error' = ""
         ELSE /\ error' = InvalidKeyMessage
              /\ UNCHANGED isAuthenticated
    /\ UNCHANGED <<isSidebarOpen, accessKey>>
    /\ UNCHANGED <<appVars, displayVars, historyVars, engineVars, chartVars>>

handleClose_KeepsSession ==
    /\ isSidebarOpen' = FALSE
    /\ UNCHANGED <<isAuthenticated, accessKey, error>>
    /\ UNCHANGED <<appVars, displayVars, historyVars, engineVars, chartVars>>

\* handleClose: resets the Sidebar's hooks and calls onClose()
handleClose ==
    /\ isAuthenticated' = FALSE
    /\ accessKey' = ""
    /\ error' = ""
    /\ isSidebarOpen' = FALSE
    /\ UNCHANGED <<appVars, displayVars, historyVars, engineVars, chartVars>>

\* the backdrop is clicked
ClickBackdrop ==
    /\ isSidebarOpen
    /\ handleClose

\* the close button of the header is clicked
ClickClose ==
    /\ isSidebarOpen
    /\ handleClose

\* handleFileSelect: a file is chosen in the file input of the
\* authenticated content; calls onFileUpload(file)
HandleFileSelect ==
    /\ isSidebarOpen /\ isAuthenticated
    /\ HandleFileUpload

InitSidebar == Init

NextSidebar ==
    \/ OpenSidebar
    \/ SetAccessKey
    \/ HandleKeySubmit
    \/ ClickBackdrop
    \/ ClickClose
    \/ HandleFileSelect
    \/ UploadResolves
    \/ UploadRejects
    \/ HandleSubmit
    \/ QueryResolves

SpecSidebar == InitSidebar /\ [][NextSidebar]_vars

-----------------------------------------------------------------------------
(* Properties.                                                             *)

\* the step in which a handleTakeAction() call runs to its end
DispatchFinishes == lastDone' # lastDone

\* some / no element of the results of the dispatch that finished last
\* has success = true
SomeSucceeded(done) == \E i \in 1..Len(done.results) : done.results[i].success

\* what the Take Action button and the e-mail section show
DispatcherView ==
    [label    |-> TakeActionLabel,
     disabled |-> TakeActionDisabled,
     emails   |-> IF EmailSectionShown THEN emailData ELSE Null]

\* the dispatcher view of a component that never dispatched
IdleView == [label |-> "Take Action", disabled |-> FALSE, emails |-> Null]

\* an outcome has success = true exactly when it carries a 2xx status, and
\* carries an error text when it carries no status
OutcomeIsOk(o) ==
    /\ o.success <=> (o.status # Undefined /\ o.status.n \in 200..299)
    /\ o.status = Undefined => o.error # Undefined

\* the array of urls holds every endpoint exactly once
OneRequestEach(requests) ==
    \A url \in Endpoints :
        Cardinality({i \in 1..Len(requests) : requests[i] = url}) = 1

\* C1: An endpoint's outcome has success = true exactly when a response
\* arrived whose status is 2xx (a non-2xx response and a transport error both
\* give success = false), and a finished dispatch took the success branch
\* (built the bundle, or tried to) exactly when at least one of its outcomes
\* has success = true.
C1_DispatchSucceedsIffSomeEndpointDoes ==
    /\ \A d \in dispatches : \A url \in Endpoints :
           d.outcomes[url] # Pending => OutcomeIsOk(d.outcomes[url])
    /\ lastDone # Null =>
           /\ \A i \in 1..Len(lastDone.results) :
                  OutcomeIsOk(lastDone.results[i])
           /\ (lastDone.applied \/ lastDone.threw) <=> SomeSucceeded(lastDone)

\* C1 witness: a dispatch finished in which the first endpoint failed with a
\* transport error, the second answered 2xx, and the bundle was set.
C1_Witness ==
    /\ lastDone # Null
    /\ lastDone.results[1].status = Undefined
    /\ lastDone.results[2].success
    /\ lastDone.applied

\* C2 (as claimed): a finished dispatch in which some endpoint answered 2xx
\* has set the bundle, and one in which none did has not.
C2_SomeSuccessSetsBundle ==
    lastDone # Null => (lastDone.applied <=> SomeSucceeded(lastDone))

\* C3 (as claimed): once the dispatch that finished last had every endpoint
\* fail, and no newer one is awaited, the answer view shows a failure (it is
\* not the view of a component that never dispatched) and shows no bundle
\* and no "Action Complete".
C3_TotalFailureIsShown ==
    (/\ lastDone # Null
     /\ ~SomeSucceeded(lastDone)
     /\ dispatches = {}
     /\ Render.kind = "answer")
    => /\ DispatcherView # IdleView
       /\ DispatcherView.emails = Null
       /\ DispatcherView.label # "Action Complete"

\* C4 (as claimed): isActionProcessing becomes true only in a step that
\* starts a dispatch; a dispatch that finishes leaves isActionProcessing
\* false; one that set the bundle leaves (actionCompleted, emailData) =
\* (true, bundle), and one that did not leaves a state that is neither that
\* one nor idle's (false, null).
C4_DispatcherStateMachine ==
    [][/\ (isActionProcessing' /\ ~isActionProcessing)
              => dispatchGen' = dispatchGen + 1
       /\ (~isActionProcessing' /\ isActionProcessing) => DispatchFinishes
       /\ DispatchFinishes =>
              /\ ~isActionProcessing'
              /\ IF lastDone'.applied
                   THEN actionCompleted' /\ emailData' # Null
                   ELSE /\ ~(actionCompleted' /\ emailData' # Null)
                        /\ ~(~actionCompleted' /\ emailData' = Null)]_vars

\* C5 (as claimed): a dispatch that was still awaited when the user started a
\* new query or a new upload does not set the bundle when it finishes.
C5_SupersededDispatchIsIgnored ==
    [][\A d \in dispatches :
           (DispatchFinishes /\ lastDone'.gen = d.gen /\ d.superseded)
               => ~lastDone'.applied]_vars

\* C6: A dispatch that sets the bundle is the most recently started one: no
\* dispatch was started between its start and the step that sets its bundle,
\* so a later dispatch's bundle is never overwritten by an earlier one.
C6_BundleOwnedByLatestDispatch ==
    [][(DispatchFinishes /\ lastDone'.applied)
           => lastDone'.gen = dispatchGen]_vars

\* C6 witness: the second dispatch of the behaviour has set the bundle shown.
C6_Witness ==
    /\ lastDone # Null
    /\ lastDone.gen = 2
    /\ lastDone.applied
    /\ EmailSectionShown

\* C7: Every dispatch issued exactly one request per endpoint; a fetch that
\* settles changes the outcome of its own endpoint only, whatever it settles
\* to and in whatever order; and a dispatch finishes in the step that settles
\* its last pending endpoint, with one outcome per endpoint, in the order of
\* webhookUrls, the outcomes collected earlier among them.
C7_EveryEndpointResolves ==
    /\ [](/\ \A d \in dispatches : OneRequestEach(d.requests)
          /\ lastDone # Null =>
                 /\ OneRequestEach(lastDone.requests)
                 /\ Len(lastDone.results) = Len(webhookUrls)
                 /\ \A i \in 1..Len(webhookUrls) :
                        /\ lastDone.results[i] # Pending
                        /\ lastDone.results[i].url = webhookUrls[i])
    /\ [][\A d \in dispatches :
              /\ \A e \in dispatches' :
                     e.gen = d.gen =>
                         /\ \A url \in Endpoints :
                                d.outcomes[url] # Pending
                                    => e.outcomes[url] = d.outcomes[url]
                         /\ Cardinality({url \in Endpoints :
                                e.outcomes[url] # d.outcomes[url]}) <= 1
              /\ (DispatchFinishes /\ lastDone'.gen = d.gen) =>
                     /\ Cardinality({url \in Endpoints :
                            d.outcomes[url] = Pending}) = 1
                     /\ \A i \in 1..Len(webhookUrls) :
                            d.outcomes[webhookUrls[i]] # Pending
                                => lastDone'.results[i]
                                       = d.outcomes[webhookUrls[i]]]_vars

\* C7 witness: a dispatch finished whose second endpoint failed with a
\* transport error and whose first endpoint answered a non-2xx status.
C7_Witness ==
    /\ lastDone # Null
    /\ lastDone.results[2].status = Undefined
    /\ lastDone.results[1].status = Num(500)

\* C8 (as claimed): when an upload of a new file has succeeded, no bundle is
\* held any more.
C8_UploadDiscardsBundle ==
    [][(uploadsInFlight' < uploadsInFlight /\ isFileUploaded')
           => emailData' = Null]_vars

\* C9: While result.success is false the component renders the message (the
\* default text when there is none) and nothing else: no axes are computed,
\* no summary and no e-mail section are shown, and no step taken in that
\* state starts a dispatch, saves a CSV file or toggles the summary (a
\* dispatch started before may still finish).
C9_FailureShortCircuits ==
    /\ []((result # Null /\ ~result.success) =>
              /\ Render = [kind    |-> "error",
                           message |-> IF result.message \in {Undefined, Str("")}
                                         THEN Str(DefaultErrorMessage)
                                         ELSE result.message]
              /\ AxesComputed = Null
              /\ SummaryShown = Null
              /\ ~EmailSectionShown)
    /\ [][(result # Null /\ ~result.success) =>
              /\ dispatchGen' = dispatchGen
              /\ savedFile' = savedFile
              /\ isSummaryExpanded' = isSummaryExpanded]_vars

\* C9 witness: a failure without message is displayed while the summary is
\* expanded, a bundle is held and a dispatch is still awaited.
C9_Witness ==
    /\ result # Null
    /\ ~result.success
    /\ result.message = Undefined
    /\ isSummaryExpanded
    /\ emailData # Null
    /\ dispatches # {}

\* C10: For a result set without rows, whatever its columns and its
\* ai_summary, getChartKeys() returns { x: '', y: '' } and
\* generateTextSummary() returns the fixed no-data message.
C10_EmptyRowsYieldEmptyAxesAndNoDataMessage ==
    Len(result.data) = 0 =>
        /\ chartKeys # Null => chartKeys = [x |-> Str(""), y |-> Str("")]
        /\ textSummary # Null => textSummary = Literal(NoDataMessage)

\* C10 witness: both were computed for a result set with two columns, a
\* narrative summary and no rows.
C10_Witness ==
    /\ Len(result.data) = 0
    /\ Len(result.columns) = 2
    /\ Truthy(result.ai_summary)
    /\ chartKeys # Null
    /\ textSummary # Null

-----------------------------------------------------------------------------
(* Properties of the chart axes and of the text summary (SpecEngine).      *)

\* the positions in result.columns of the columns whose value in the first
\* row has the given type
ColumnsOfType(type) ==
    {i \in 1..Len(result.columns) :
        Get(result.data[1], result.columns[i]).t = type}

\* the least element of a non-empty set of integers
Least(S) == CHOOSE i \in S : \A j \in S : i <= j
Greatest(S) == CHOOSE i \in S : \A j \in S : i >= j

\* C11 (as claimed): for a result set with at least one row and at least two
\* columns, the two axes getChartKeys() returns are different.
C11_AxesDifferWithTwoColumns ==
    (/\ chartKeys # Null
     /\ Len(result.data) >= 1
     /\ Len(result.columns) >= 2)
    => chartKeys.x # chartKeys.y

\* C12: For a result set with rows, x is the first column (in column order)
\* whose value in the first row is a string, else the first column, and y is
\* the first column whose value in the first row is a number, else the second
\* column; a boolean, null or absent value counts as neither, and no row
\* after the first has any influence.
C12_AxesFollowFirstRowTypes ==
    (chartKeys # Null /\ Len(result.data) >= 1) =>
        /\ ColumnsOfType("string") # {} =>
               chartKeys.x = Str(result.columns[Least(ColumnsOfType("string"))])
        /\ (ColumnsOfType("string") = {} /\ Len(result.columns) >= 1) =>
               chartKeys.x = Str(result.columns[1])
        /\ ColumnsOfType("number") # {} =>
               chartKeys.y = Str(result.columns[Least(ColumnsOfType("number"))])
        /\ (ColumnsOfType("number") = {} /\ Len(result.columns) >= 2) =>
               chartKeys.y = Str(result.columns[2])

\* C12 witness: the axes were computed for two rows of which the first has
\* a string in the second column and nothing in the first, and the second
\* has a number in the first column: both axes are the second column.
C12_Witness ==
    /\ chartKeys = [x |-> Str("name"), y |-> Str("name")]
    /\ result.columns = <<"qty", "name">>
    /\ Len(result.data) = 2
    /\ DOMAIN result.data[1] = {"name"}
    /\ result.data[1].name = Str("x")
    /\ Get(result.data[2], "qty") = Num(1)

\* C13 (as claimed): for a result set without columns, whatever its rows,
\* both axes getChartKeys() returns are the empty string.
C13_NoColumnsYieldEmptyAxes ==
    (chartKeys # Null /\ Len(result.columns) = 0)
    => chartKeys = [x |-> Str(""), y |-> Str("")]

\* C14: generateTextSummary() returns the fixed no-data message when there
\* are no rows, even with an ai_summary; else the ai_summary itself, as it
\* is, when there is a non-empty one; else (and only then) the synthesized
\* text, which reports the numbers of rows and of columns.
C14_SummaryPolicyInOrder ==
    textSummary # Null =>
        IF Len(result.data) = 0
          THEN textSummary = Literal(NoDataMessage)
        ELSE IF result.ai_summary \notin {Undefined, Str("")}
          THEN textSummary = Literal(result.ai_summary.s)
        ELSE /\ textSummary.kind = "template"
             /\ textSummary.rowCount = Len(result.data)
             /\ textSummary.colCount = Len(result.columns)

\* C14 witness: the summary of a result set with a row that has a numeric
\* column, and with an ai_summary, is the ai_summary.
C14_Witness ==
    /\ textSummary = Literal("Sales rose in May.")
    /\ Len(result.data) >= 1
    /\ result.columns = <<"name", "qty">>
    /\ Get(result.data[1], "qty") = Num(1)

\* C15 (as claimed): when the synthesized summary reports a range, its
\* minimum and maximum are those of the numbers the rows hold in that
\* column, the rows holding anything else there being left out.
C15_RangeIsOverNumericValuesOnly ==
    (/\ textSummary # Null
     /\ textSummary.kind = "template"
     /\ textSummary.range # Null)
    => LET key     == textSummary.range.key
           numbers == {Get(result.data[i], key).n :
                          i \in {j \in 1..Len(result.data) :
                                    Get(result.data[j], key).t = "number"}}
       IN  /\ textSummary.range.min = Num(Least(numbers))
           /\ textSummary.range.max = Num(Greatest(numbers))

-----------------------------------------------------------------------------
(* Properties of the CSV text (SpecCsv).                                   *)

\* Reading a CSV text back: fields are separated by commas and rows by line
\* breaks; a field that starts with a double quote runs to its closing
\* double quote, a doubled double quote inside it standing for one.
RECURSIVE ParseFrom(_, _, _, _, _, _)
ParseFrom(text, i, quoted, field, row, rows) ==
    IF i > Len(text) THEN Append(rows, Append(row, field))
    ELSE IF quoted
      THEN IF text[i] = "\""
             THEN IF i < Len(text) /\ text[i + 1] = "\""
                    THEN ParseFrom(text, i + 2, TRUE, Append(field, "\""),
                                   row, rows)
                    ELSE ParseFrom(text, i + 1, FALSE, field, row, rows)
             ELSE ParseFrom(text, i + 1, TRUE, Append(field, text[i]),
                            row, rows)
    ELSE IF text[i] = ","
      THEN ParseFrom(text, i + 1, FALSE, <<>>, Append(row, field), rows)
    ELSE IF text[i] = "\n"
      THEN ParseFrom(text, i + 1, FALSE, <<>>, <<>>,
                     Append(rows, Append(row, field)))
    ELSE IF text[i] = "\"" /\ field = <<>>
      THEN ParseFrom(text, i + 1, TRUE, field, row, rows)
    ELSE ParseFrom(text, i + 1, FALSE, Append(field, text[i]), row, rows)

ParseCsv(text) == ParseFrom(text, 1, FALSE, <<>>, <<>>, <<>>)

\* the cells of the result set, for its columns
CellPositions ==
    {<<i, j>> : i \in 1..Len(result.data), j \in 1..Len(result.columns)}
CellAt(p) == Get(result.data[p[1]], result.columns[p[2]])

\* a file was saved from the result set displayed
CsvSaved == savedFile # Null /\ Len(result.data) >= 1

\* C16 (as claimed): when every cell is a string, reading the saved text
\* back gives the header row and then one row per row of the result set,
\* each with one field per column whose characters are those of the cell.
C16_CsvRoundTrips ==
    (CsvSaved /\ \A p \in CellPositions : TypeOf(CellAt(p)) = "string")
    => LET parsed == ParseCsv(savedFile.content)
       IN  /\ Len(parsed) = Len(result.data) + 1
           /\ \A i \in 1..Len(result.data) :
                  /\ Len(parsed[i + 1]) = Len(result.columns)
                  /\ \A j \in 1..Len(result.columns) :
                         parsed[i + 1][j] = Chars(CellAt(<<i, j>>))

\* no cell is a string with a line break
NoLineBreakInCells ==
    \A p \in CellPositions :
        TypeOf(CellAt(p)) = "string" => ~Includes(CellAt(p), "\n")

\* C17: The saved text never holds the text "undefined"; and (read back,
\* which needs cells without line breaks) every row has exactly one field
\* per column, in column order, the field of a cell that is missing being
\* empty and the field of a string cell being that string.
C17_MissingCellIsEmptyField ==
    CsvSaved =>
        /\ \A k \in 1..Len(savedFile.content) :
               savedFile.content[k] # "undefined"
        /\ NoLineBreakInCells =>
               LET parsed == ParseCsv(savedFile.content)
               IN  /\ Len(parsed) = Len(result.data) + 1
                   /\ \A p \in CellPositions :
                          /\ Len(parsed[p[1] + 1]) = Len(result.columns)
                          /\ CellAt(p) = Undefined
                                 => parsed[p[1] + 1][p[2]] = <<>>
                          /\ TypeOf(CellAt(p)) = "string"
                                 => parsed[p[1] + 1][p[2]] = Chars(CellAt(p))

\* C17 witness: a file was saved from two rows with columns a, b of which
\* the first has no cell in a, and the second no cell in b and AcmeInc in a.
C17_Witness ==
    /\ CsvSaved
    /\ result.columns = <<"a", "b">>
    /\ Len(result.data) = 2
    /\ DOMAIN result.data[1] = {"b"}
    /\ DOMAIN result.data[2] = {"a"}
    /\ result.data[2].a = AcmeInc
    /\ savedFile.content =
           <<"a", ",", "b", "\n",
             ",", "x", "\n",
             "\"", "Acme", ",", " ", "\"", "\"", "Inc.", "\"", "\"", "\"",
             ",">>

\* the text of a value: its characters, its numeral, true / false, and
\* nothing for null and for a missing value
TextOfCell(v) ==
    CASE v.t = "string"  -> Chars(v)
      [] v.t = "number"  -> <<ToString(v.n)>>
      [] v.t = "boolean" -> IF v.b THEN <<"true">> ELSE <<"false">>
      [] OTHER           -> <<>>

\* a text with a double quote before it, after it, and before each of its own
RECURSIVE Quoted(_, _)
Quoted(cs, k) ==
    IF k > Len(cs) THEN <<"\"">>
    ELSE (IF cs[k] = "\"" THEN <<"\"", "\"">> ELSE <<cs[k]>>)
         \o Quoted(cs, k + 1)

\* the field the claim prescribes for a cell
PrescribedField(v) ==
    IF \E k \in 1..Len(TextOfCell(v)) : TextOfCell(v)[k] \in {",", "\""}
      THEN <<"\"">> \o Quoted(TextOfCell(v), 1)
      ELSE TextOfCell(v)

\* texts joined by a separator character
RECURSIVE Joined(_, _)
Joined(texts, sep) ==
    IF Len(texts) = 0 THEN <<>>
    ELSE IF Len(texts) = 1 THEN texts[1]
    ELSE texts[1] \o <<sep>> \o Joined(Tail(texts), sep)

\* C18: The saved text is the column names joined by comma, one line break,
\* and the rows joined by line break, each row being its fields joined by
\* comma; the field of a cell is its text, put between double quotes with
\* every double quote of its own doubled when that text holds a comma or a
\* double quote, and left as it is otherwise.
C18_FieldsQuotedWhenNeeded ==
    CsvSaved =>
        savedFile.content =
            Joined([j \in 1..Len(result.columns) |-> <<result.columns[j]>>],
                   ",")
            \o <<"\n">>
            \o Joined([i \in 1..Len(result.data) |->
                          Joined([j \in 1..Len(result.columns) |->
                                     PrescribedField(CellAt(<<i, j>>))], ",")],
                      "\n")

\* C18 witness: a file was saved from a row whose cell in column a is one
\* double quote, and a row whose cell there is a number.
C18_Witness ==
    /\ CsvSaved
    /\ result.columns = <<"a", "b">>
    /\ Len(result.data) = 2
    /\ Get(result.data[1], "a") = Text(<<"\"">>)
    /\ Get(result.data[1], "b") = Str("x")
    /\ Get(result.data[2], "a") = Num(1)
    /\ Get(result.data[2], "b") = Str("x")
    /\ savedFile.content =
           <<"a", ",", "b", "\n",
             "\"", "\"", "\"", "\"", ",", "x", "\n",
             "1", ",", "x">>

-----------------------------------------------------------------------------
(* Properties of the anomaly evaluation (SpecAnomaly).                     *)

\* the signals whose threshold the metrics derived from a row exceed
SignalsExceeded(row) ==
    {signal \in {"cancelled", "pending", "late", "quality"} :
        LET metric == CASE signal = "cancelled" -> cancelledOf(row)
                        [] signal = "pending"   -> pendingOf(row)
                        [] signal = "late"      -> lateOf(row)
                        [] signal = "quality"   -> qualityOf(row)
            max    == CASE signal = "cancelled" -> 2
                        [] signal = "pending"   -> 0
                        [] signal = "late"      -> 3
                        [] signal = "quality"   -> 1
        IN  metric # NaN /\ metric.n > max}

\* the rows of the result set that exceed some threshold, in row order
RowsExceeding ==
    SelectSeq(result.data, LAMBDA row : SignalsExceeded(row) # {})

\* C19: The rows generateMockEmailData() keeps are exactly the rows of which
\* some derived metric is greater than its threshold (2, 0, 3, 1), in row
\* order; when it returns, it returns one e-mail per kept row, with as many
\* issues as thresholds that row exceeds; and ExampleRow gives one e-mail
\* whose only issue is the one for its 3 cancelled orders.
C19_FlaggedIffThresholdExceeded ==
    mockEmailData # Null =>
        /\ mockEmailData.problematicSuppliers = RowsExceeding
        /\ ~mockEmailData.threw =>
               LET emails == mockEmailData.value.supplierEmails
               IN  /\ Len(emails) = Len(RowsExceeding)
                   /\ \A i \in 1..Len(emails) :
                          Len(emails[i].issues)
                              = Cardinality(SignalsExceeded(RowsExceeding[i]))
                   /\ result.data[1] = ExampleRow =>
                          emails[1].issues =
                              <<[signal |-> "cancelled orders",
                                 value  |-> Num(3)]>>

\* C19 witness: evaluated were ExampleRow and a row with every metric at
\* its threshold: one e-mail, for ExampleRow, with one issue.
C19_Witness ==
    /\ mockEmailData # Null
    /\ ~mockEmailData.threw
    /\ result.data =
           <<ExampleRow,
             [cancelled_orders |-> Num(2), pending_orders |-> Num(0),
              late_deliveries |-> Num(3), quality_issues |-> Num(1)]>>
    /\ Len(mockEmailData.value.supplierEmails) = 1
    /\ Len(mockEmailData.value.supplierEmails[1].issues) = 1

\* the metric the claim prescribes: the snake_case value when the row has
\* one, else the Pascal-case value when the row has one, else 0
PrescribedMetric(row, snake, pascal) ==
    ParseInt(IF snake \in DOMAIN row THEN row[snake]
             ELSE IF pascal \in DOMAIN row THEN row[pascal]
             ELSE Str("0"))

\* C20 (as claimed): the rows generateMockEmailData() keeps are those of
\* which a prescribed metric is greater than its threshold.
C20_SnakeCaseValueWinsOverAlias ==
    mockEmailData # Null =>
        mockEmailData.problematicSuppliers =
            SelectSeq(result.data, LAMBDA row :
                \/ Greater(PrescribedMetric(row, "cancelled_orders",
                                            "Cancelled_Orders"), 2)
                \/ Greater(PrescribedMetric(row, "pending_orders",
                                            "Pending_Orders"), 0)
                \/ Greater(PrescribedMetric(row, "late_deliveries",
                                            "Late_Deliveries"), 3)
                \/ Greater(PrescribedMetric(row, "quality_issues",
                                            "Quality_Issues"), 1))

\* the e-mails generateMockEmailData() returned (none when it threw)
FindingsReturned ==
    IF mockEmailData.threw THEN <<>> ELSE mockEmailData.value.supplierEmails

\* C21 (as claimed): generateMockEmailData() gives one e-mail per row that
\* exceeds a threshold and none for the other rows, in row order, each with
\* the supplier name and the issues of its row.
C21_OneFindingPerFlaggedRowInOrder ==
    mockEmailData # Null =>
        /\ Len(FindingsReturned) = Len(RowsExceeding)
        /\ \A i \in 1..Len(FindingsReturned) :
               /\ FindingsReturned[i].supplier = supplierName(RowsExceeding[i])
               /\ FindingsReturned[i].issues = issuesOf(RowsExceeding[i])

\* C22 (as claimed): an e-mail has priority high exactly when it has more
\* than two issues.
C22_SeverityHighIffMoreThanTwoSignals ==
    mockEmailData # Null =>
        \A i \in 1..Len(FindingsReturned) :
            FindingsReturned[i].priority = "high"
                <=> Len(FindingsReturned[i].issues) > 2

\* C23 (as claimed): in the value generateMockEmailData() returns,
\* totalIssuesFound is the number of supplier e-mails, and there is an
\* executive e-mail exactly when that number is greater than 0.
C23_AggregatePresentIffFlagged ==
    (mockEmailData # Null /\ ~mockEmailData.threw) =>
        /\ mockEmailData.value.totalIssuesFound
               = Len(mockEmailData.value.supplierEmails)
        /\ mockEmailData.value.executiveEmail # Null
               <=> mockEmailData.value.totalIssuesFound > 0

\* the number of the "Required Actions" line that belongs to an issue
ActionOfSignal(signal) ==
    CASE signal = "cancelled orders" -> 1
      [] signal = "orders pending"   -> 2
      [] signal = "late deliveries"  -> 3
      [] signal = "quality issues"   -> 4

\* C24: In every e-mail returned, the "Required Actions" lines of the body
\* are those that belong to the e-mail's issues, one line per issue and no
\* other line.
C24_ActionParagraphsMatchSignals ==
    mockEmailData # Null =>
        \A i \in 1..Len(FindingsReturned) :
            LET email == FindingsReturned[i]
            IN  /\ Len(email.requiredActions) = Len(email.issues)
                /\ \A k \in 1..Len(email.issues) :
                       email.requiredActions[k]
                           = ActionOfSignal(email.issues[k].signal)

\* C24 witness: an e-mail was returned whose issues are the cancelled orders
\* and the late deliveries, and whose lines are the first and the third.
C24_Witness ==
    /\ mockEmailData # Null
    /\ \E i \in 1..Len(FindingsReturned) :
           /\ Len(FindingsReturned[i].issues) = 2
           /\ FindingsReturned[i].issues[1].signal = "cancelled orders"
           /\ FindingsReturned[i].issues[2].signal = "late deliveries"
           /\ FindingsReturned[i].requiredActions = <<1, 3>>

-----------------------------------------------------------------------------
(* Properties of App's and AnswerDisplay's state (Spec).                   *)

\* C25: Whenever actionCompleted is true a bundle is held (emailData is not
\* null); a step changes actionCompleted or emailData only when it finishes a
\* dispatch that had a successful outcome; and no step (a dispatch that
\* fails later, a new result, an upload, a toggle) sets actionCompleted back
\* to false or emailData back to null.
C25_CompletedImpliesBundleAndNeverReset ==
    /\ [](actionCompleted => emailData # Null)
    /\ [][/\ (actionCompleted' # actionCompleted \/ emailData' # emailData)
               => (DispatchFinishes /\ lastDone'.hasSuccess)
          /\ actionCompleted => actionCompleted'
          /\ emailData # Null => emailData' # Null]_vars

\* C25 witness: a bundle is held and actionCompleted is true after a second
\* dispatch ended in failure, a failure result arrived and the details were
\* hidden.
C25_Witness ==
    /\ actionCompleted
    /\ emailData # Null
    /\ lastDone # Null
    /\ lastDone.gen = 2
    /\ ~lastDone.hasSuccess
    /\ result # Null
    /\ ~result.success
    /\ ~showEmailDetails

\* C28: A step puts a query in flight only while isFileUploaded is true;
\* handleSubmit run while no file is uploaded puts nothing in flight, leaves
\* isLoading as it is and sets a result with success = false, no data, no
\* columns and the upload-first message; and the step in which an upload
\* fails leaves isFileUploaded false.
C28_QuerySentOnlyWhenUploaded ==
    [][/\ Len(queriesInFlight') > Len(queriesInFlight) => isFileUploaded
       /\ (~isFileUploaded /\ HandleSubmit) =>
              /\ queriesInFlight' = queriesInFlight
              /\ isLoading' = isLoading
              /\ result'.success = FALSE
              /\ result'.data = <<>>
              /\ result'.columns = <<>>
              /\ result'.message =
                     Str("Please upload a CSV file first before querying.")
       /\ (uploadsInFlight' < uploadsInFlight
              /\ uploadStatus' = "Upload failed") => ~isFileUploaded']_vars

\* C28 witness: a file had been uploaded (a dispatch was started from an
\* answer), a later upload failed, and the question submitted afterwards was
\* answered with the upload-first message and nothing is in flight.
C28_Witness ==
    /\ dispatchGen > 0
    /\ ~isFileUploaded
    /\ uploadStatus = "Upload failed"
    /\ result # Null
    /\ ~result.success
    /\ result.message = Str("Please upload a CSV file first before querying.")
    /\ queriesInFlight = <<>>
    /\ ~isLoading

\* C29: isLoading is true exactly while a query is in flight; at most one
\* query is in flight; and a step that changes result either answers the
\* question it submits itself, with nothing in flight, or settles the only
\* query in flight, which is the one submitted last, and carries its
\* question.
C29_LoadingIffOneQueryInFlight ==
    /\ [](isLoading <=> queriesInFlight # <<>>)
    /\ [](Len(queriesInFlight) <= 1)
    /\ [][result' # result =>
              /\ queriesInFlight' = <<>>
              /\ ~isLoading'
              /\ queriesInFlight # <<>> =>
                     result'.question
                         = queriesInFlight[Len(queriesInFlight)].s]_vars

\* C29 witness: a second query is in flight while the result of the first
\* is displayed.
C29_Witness ==
    /\ isLoading
    /\ Len(queriesInFlight) = 1
    /\ result # Null
    /\ result.success
    /\ result.question = "q1"

\* C26: When every fetch that was started settles, a dispatch that was
\* started ends with isActionProcessing false again, whether it took the
\* success branch, found every request failed or threw while building the
\* bundle; and no step taken while isActionProcessing is true starts a
\* dispatch.
C26_DispatchLeavesProcessing ==
    /\ isActionProcessing ~> ~isActionProcessing
    /\ [][isActionProcessing => dispatchGen' = dispatchGen]_vars

\* C26 witness: the dispatch that finished last threw while building the
\* bundle, and isActionProcessing is false.
C26_Witness ==
    /\ lastDone # Null
    /\ lastDone.threw
    /\ ~isActionProcessing

-----------------------------------------------------------------------------
(* Properties of the chart request (SpecChart).                            *)

\* C27 (as claimed): whenever chartProcessing is false no timer of a chart
\* request is pending, and no step taken while chartProcessing is true sets
\* another timer.
C27_NoTimerPendingWhenIdle ==
    /\ [](~chartProcessing => chartTimers = <<>>)
    /\ [][chartProcessing => Len(chartTimers') <= Len(chartTimers)]_vars

-----------------------------------------------------------------------------
(* Properties of the Sidebar with the access key (SpecSidebar).            *)

\* C30: An upload is started only while the sidebar is open and
\* isAuthenticated is true; isAuthenticated becomes true only in a step taken
\* with the access key input equal to "pass@123"; submitting another key
\* sets the error and leaves isAuthenticated false; closing by the backdrop
\* or by the close button leaves isAuthenticated false and the key and the
\* error empty, so they are while the sidebar is closed and when it is
\* opened again.
C30_UploadOnlyWhileAuthenticated ==
    /\ [](~isSidebarOpen =>
              (~isAuthenticated /\ accessKey = "" /\ error = ""))
    /\ [][/\ uploadsInFlight' > uploadsInFlight
               => (isSidebarOpen /\ isAuthenticated)
          /\ (~isAuthenticated /\ isAuthenticated')
               => (isSidebarOpen /\ accessKey = "pass@123")
          /\ (HandleKeySubmit /\ accessKey # "pass@123")
               => (error' # "" /\ ~isAuthenticated')
          /\ ((ClickBackdrop \/ ClickClose) /\ isSidebarOpen)
               => (~isSidebarOpen' /\ ~isAuthenticated'
                     /\ accessKey' = "" /\ error' = "")
          /\ (~isSidebarOpen /\ isSidebarOpen')
               => (~isAuthenticated' /\ accessKey' = "" /\ error' = "")]_vars

\* C30 witness: a file was uploaded (so the key had been accepted), the
\* sidebar was closed and opened again, and it asks for the key anew.
C30_Witness ==
    /\ isFileUploaded
    /\ isSidebarOpen
    /\ ~isAuthenticated
    /\ accessKey = ""
    /\ error = ""

====
